---- MODULE Spec2Model ----
(***************************************************************************)
(* Model of app.py: the process-wide request counter (_TOTAL_REQUESTS,     *)
(* _LAST_HIT_UTC, STARTED_AT guarded by _LOCK), the before_request hook    *)
(* _count_requests, the /api/status handler and the /events generator.     *)
(*                                                                         *)
(* One execution context per inbound request.  Every bytecode-level step   *)
(* that touches shared state is its own action, so that the interleavings  *)
(* the lock is there to exclude are expressible.  Time is the integer      *)
(* variable clock, which only moves forward; time.sleep is a suspension    *)
(* step of the sleeping context whose length is not tied to clock.         *)
(***************************************************************************)
EXTENDS Integers, Sequences, FiniteSets, TLC

\* ---- bounds --------------------------------------------------------------
NReq == 2
MaxTime == 2
StartTime == 1
TicksPerSecond == 2
MaxUptimeSeconds == 6

Requests == 1..NReq

Routes == {"/api/status", "/events", "/healthz", "/"}

NoOne == 0

VARIABLES
    clock,        \* wall clock read by datetime.now(timezone.utc)
    startedAt,    \* STARTED_AT
    lock,         \* _LOCK: the request holding it, or NoOne
    total,        \* _TOTAL_REQUESTS
    lastHit,      \* _LAST_HIT_UTC: <<>> is None, <<t>> a datetime
    pc,           \* position of each request's execution context
    tmp,          \* value loaded by `_TOTAL_REQUESTS += 1` before the store
    snapTotal,    \* local `total` of api_status / gen
    snapLast,     \* local `last` of api_status / gen: <<>> is None
    connClosed,   \* the transport of a stream reports the peer gone
    hookRuns,     \* history: increments done on behalf of each request
    snaps,        \* history: snapshots a stream took since it last slept
    emits,        \* history: messages a stream emitted since it last slept
    yieldsAfterClose, \* history: messages produced after the peer had gone
    uptimeRead    \* <<now, seconds>> of the latest call of _uptime_seconds that
                  \* UptimeSpec traces, <<>> before the first; the uptime field
                  \* of the payloads is not traced in Spec

vars == <<clock, startedAt, lock, total, lastHit, pc, tmp, snapTotal,
          snapLast, connClosed, hookRuns, snaps, emits, yieldsAfterClose,
          uptimeRead>>

shared == <<lock, total, lastHit>>
history == <<hookRuns, snaps, emits, yieldsAfterClose>>
locals == <<tmp, snapTotal, snapLast>>

HookPcs == {"hook_acquire", "hook_load", "hook_store", "hook_now", "hook_release"}
StatusPcs == {"st_acquire", "st_read_total", "st_read_last", "st_release"}
GenPcs == {"ev_acquire", "ev_read_total", "ev_read_last", "ev_release",
           "ev_yield", "ev_sleep"}

\* ---- pure helpers --------------------------------------------------------
NowLocal(c) == c - 2

NowUtc(c) == c

IsoFormat(d) == ToString(d)

LastIso(l) == IF l # <<>> THEN <<IsoFormat(l[1])>> ELSE <<>>

IncrementedTwice(n) == n + 2

IncrementedDown(n) == n - 1

IncrementedNot(n) == n

Incremented(n) == n + 1

LockFreeUnguarded(l) == TRUE

LockFree(l) == l = NoOne

\* int() of a quotient of integers: the fraction is dropped, towards zero.
TruncRounded(num, den) == (2 * num + den) \div (2 * den)

Trunc(num, den) == IF num >= 0 THEN num \div den ELSE -((-num) \div den)

\* clock and startedAt count ticks of 1/TicksPerSecond second.
UptimeSeconds(c, s) == Trunc(NowUtc(c) - s, TicksPerSecond)

\* ---- initial state -------------------------------------------------------
NoRequests ==
    /\ lock = NoOne
    /\ total = 0
    /\ lastHit = <<>>
    /\ pc = [t \in Requests |-> "idle"]
    /\ tmp = [t \in Requests |-> 0]
    /\ snapTotal = [t \in Requests |-> 0]
    /\ snapLast = [t \in Requests |-> <<>>]
    /\ connClosed = [t \in Requests |-> FALSE]
    /\ hookRuns = [t \in Requests |-> 0]
    /\ snaps = [t \in Requests |-> 0]
    /\ emits = [t \in Requests |-> 0]
    /\ yieldsAfterClose = [t \in Requests |-> 0]
    /\ uptimeRead = <<>>

Init ==
    /\ clock = StartTime
    /\ startedAt = clock
    /\ NoRequests

\* ---- environment ---------------------------------------------------------
Tick ==
    /\ clock < MaxTime
    /\ clock' = clock + 1
    /\ UNCHANGED <<startedAt, uptimeRead, shared, pc, locals, connClosed, history>>

ArriveUncounted(t) ==
    /\ pc[t] = "idle"
    /\ pc' = [pc EXCEPT ![t] = "st_acquire"]
    /\ UNCHANGED <<clock, startedAt, uptimeRead, shared, locals, connClosed,
                   history>>

Arrive(t) ==
    /\ pc[t] = "idle"
    /\ pc' = [pc EXCEPT ![t] = "hook_acquire"]
    /\ UNCHANGED <<clock, startedAt, uptimeRead, shared, locals, connClosed, history>>

PeerClose(t) ==
    /\ pc[t] \in GenPcs
    /\ ~connClosed[t]
    /\ connClosed' = [connClosed EXCEPT ![t] = TRUE]
    /\ UNCHANGED <<clock, startedAt, uptimeRead, shared, pc, locals, history>>

\* ---- _count_requests (before_request) ------------------------------------
HookAcquire(t) ==
    /\ pc[t] = "hook_acquire"
    /\ LockFree(lock)
    /\ lock' = t
    /\ pc' = [pc EXCEPT ![t] = "hook_load"]
    /\ UNCHANGED <<clock, startedAt, uptimeRead, total, lastHit, locals,
                   connClosed, history>>

HookLoad(t) ==
    /\ pc[t] = "hook_load"
    /\ tmp' = [tmp EXCEPT ![t] = total]
    /\ pc' = [pc EXCEPT ![t] = "hook_store"]
    /\ UNCHANGED <<clock, startedAt, uptimeRead, shared, snapTotal, snapLast,
                   connClosed, history>>

HookStore(t) ==
    /\ pc[t] = "hook_store"
    /\ total' = Incremented(tmp[t])
    /\ hookRuns' = [hookRuns EXCEPT ![t] = @ + 1]
    /\ pc' = [pc EXCEPT ![t] = "hook_now"]
    /\ UNCHANGED <<clock, startedAt, uptimeRead, lock, lastHit, locals,
                   connClosed, snaps, emits, yieldsAfterClose>>

HookSetLastKeepFirst(t) ==
    /\ pc[t] = "hook_now"
    /\ lastHit' = IF lastHit # <<>> THEN lastHit ELSE <<NowUtc(clock)>>
    /\ pc' = [pc EXCEPT ![t] = "hook_release"]
    /\ UNCHANGED <<clock, startedAt, uptimeRead, lock, total, locals,
                   connClosed, history>>

HookSetLast(t) ==
    /\ pc[t] = "hook_now"
    /\ lastHit' = <<NowUtc(clock)>>
    /\ pc' = [pc EXCEPT ![t] = "hook_release"]
    /\ UNCHANGED <<clock, startedAt, uptimeRead, lock, total, locals, connClosed,
                   history>>

HandlerEntry(r) ==
    CASE r = "/api/status" -> "st_acquire"
      [] r = "/events" -> "ev_acquire"
      [] r = "/healthz" -> "respond"
      [] r = "/" -> "respond"

\* The hook leaves its `with` block and returns None, so Flask goes on to the
\* view function of the rule the URL matched.  The hook never looks at the
\* URL, so r is drawn here.
HookRelease(t, r) ==
    /\ pc[t] = "hook_release"
    /\ lock' = NoOne
    /\ tmp' = [tmp EXCEPT ![t] = 0]
    /\ pc' = [pc EXCEPT ![t] = HandlerEntry(r)]
    /\ UNCHANGED <<clock, startedAt, uptimeRead, total, lastHit, snapTotal,
                   snapLast, connClosed, history>>

\* ---- healthz, home, and the return of api_status -------------------------
Respond(t) ==
    /\ pc[t] \in {"respond", "st_respond"}
    /\ pc' = [pc EXCEPT ![t] = "done"]
    /\ snapTotal' = [snapTotal EXCEPT ![t] = 0]
    /\ snapLast' = [snapLast EXCEPT ![t] = <<>>]
    /\ UNCHANGED <<clock, startedAt, uptimeRead, shared, tmp, connClosed, history>>

\* ---- api_status ----------------------------------------------------------
StAcquireUnlocked(t) ==
    /\ pc[t] = "st_acquire"
    /\ pc' = [pc EXCEPT ![t] = "st_read_total"]
    /\ UNCHANGED <<clock, startedAt, uptimeRead, shared, locals, connClosed, history>>

StAcquire(t) ==
    /\ pc[t] = "st_acquire"
    /\ LockFree(lock)
    /\ lock' = t
    /\ pc' = [pc EXCEPT ![t] = "st_read_total"]
    /\ UNCHANGED <<clock, startedAt, uptimeRead, total, lastHit, locals,
                   connClosed, history>>

StReadTotal(t) ==
    /\ pc[t] = "st_read_total"
    /\ snapTotal' = [snapTotal EXCEPT ![t] = total]
    /\ pc' = [pc EXCEPT ![t] = "st_read_last"]
    /\ UNCHANGED <<clock, startedAt, uptimeRead, shared, tmp, snapLast, connClosed,
                   history>>

StReadLast(t) ==
    /\ pc[t] = "st_read_last"
    /\ snapLast' = [snapLast EXCEPT ![t] = LastIso(lastHit)]
    /\ pc' = [pc EXCEPT ![t] = "st_release"]
    /\ UNCHANGED <<clock, startedAt, uptimeRead, shared, tmp, snapTotal, connClosed,
                   history>>

StRelease(t) ==
    /\ pc[t] = "st_release"
    /\ lock' = NoOne
    /\ pc' = [pc EXCEPT ![t] = "st_respond"]
    /\ UNCHANGED <<clock, startedAt, uptimeRead, total, lastHit, locals,
                   connClosed, history>>

\* ---- events.gen ----------------------------------------------------------
EvAcquire(t) ==
    /\ pc[t] = "ev_acquire"
    /\ LockFree(lock)
    /\ lock' = t
    /\ pc' = [pc EXCEPT ![t] = "ev_read_total"]
    /\ UNCHANGED <<clock, startedAt, uptimeRead, total, lastHit, locals,
                   connClosed, history>>

EvReadTotalCounting(t) ==
    /\ pc[t] = "ev_read_total"
    /\ snapTotal' = [snapTotal EXCEPT ![t] = total]
    /\ total' = Incremented(total)
    /\ pc' = [pc EXCEPT ![t] = "ev_read_last"]
    /\ UNCHANGED <<clock, startedAt, uptimeRead, lock, lastHit, tmp, snapLast,
                   connClosed, history>>

EvReadTotal(t) ==
    /\ pc[t] = "ev_read_total"
    /\ snapTotal' = [snapTotal EXCEPT ![t] = total]
    /\ pc' = [pc EXCEPT ![t] = "ev_read_last"]
    /\ UNCHANGED <<clock, startedAt, uptimeRead, shared, tmp, snapLast, connClosed,
                   history>>

EvReadLast(t) ==
    /\ pc[t] = "ev_read_last"
    /\ snapLast' = [snapLast EXCEPT ![t] = LastIso(lastHit)]
    /\ snaps' = [snaps EXCEPT ![t] = @ + 1]
    /\ pc' = [pc EXCEPT ![t] = "ev_release"]
    /\ UNCHANGED <<clock, startedAt, uptimeRead, shared, tmp, snapTotal, connClosed,
                   hookRuns, emits, yieldsAfterClose>>

EvReleaseAfterYield(t) ==
    /\ pc[t] = "ev_release"
    /\ pc' = [pc EXCEPT ![t] = "ev_yield"]
    /\ UNCHANGED <<clock, startedAt, uptimeRead, shared, locals, connClosed, history>>

EvRelease(t) ==
    /\ pc[t] = "ev_release"
    /\ lock' = NoOne
    /\ pc' = [pc EXCEPT ![t] = "ev_yield"]
    /\ UNCHANGED <<clock, startedAt, uptimeRead, total, lastHit, locals,
                   connClosed, history>>

\* The generator hands one message to the server.  If the transport reports
\* the peer gone the write fails and the server closes the generator, which
\* ends it at the yield; otherwise the message is delivered and the generator
\* is resumed into time.sleep.
AfterFailedWriteIgnored == "ev_sleep"

AfterFailedWrite == "gen_closed"

EvYield(t) ==
    /\ pc[t] = "ev_yield"
    /\ IF connClosed[t]
         THEN /\ pc' = [pc EXCEPT ![t] = AfterFailedWrite]
              /\ yieldsAfterClose' = [yieldsAfterClose EXCEPT ![t] = @ + 1]
              /\ UNCHANGED emits
         ELSE /\ pc' = [pc EXCEPT ![t] = "ev_sleep"]
              /\ emits' = [emits EXCEPT ![t] = @ + 1]
              /\ UNCHANGED yieldsAfterClose
    /\ snapTotal' = [snapTotal EXCEPT ![t] = 0]
    /\ snapLast' = [snapLast EXCEPT ![t] = <<>>]
    /\ UNCHANGED <<clock, startedAt, uptimeRead, shared, tmp, connClosed, hookRuns, snaps>>

AfterSleepOnce == "gen_closed"

AfterSleepNoSample == "ev_yield"

AfterSleep == "ev_acquire"

EvSleep(t) ==
    /\ pc[t] = "ev_sleep"
    /\ snaps' = [snaps EXCEPT ![t] = 0]
    /\ emits' = [emits EXCEPT ![t] = 0]
    /\ pc' = [pc EXCEPT ![t] = AfterSleep]
    /\ UNCHANGED <<clock, startedAt, uptimeRead, shared, locals, connClosed,
                   hookRuns, yieldsAfterClose>>

\* ---- next-state relation -------------------------------------------------
Step(t) ==
    \/ HookAcquire(t)
    \/ HookLoad(t)
    \/ HookStore(t)
    \/ HookSetLast(t)
    \/ \E r \in Routes : HookRelease(t, r)
    \/ Respond(t)
    \/ StAcquire(t)
    \/ StReadTotal(t)
    \/ StReadLast(t)
    \/ StRelease(t)
    \/ EvAcquire(t)
    \/ EvReadTotal(t)
    \/ EvReadLast(t)
    \/ EvRelease(t)
    \/ EvYield(t)
    \/ EvSleep(t)

Next ==
    \/ Tick
    \/ \E t \in Requests : Arrive(t)
    \/ \E t \in Requests : PeerClose(t)
    \/ \E t \in Requests : Step(t)

Spec == Init /\ [][Next]_vars

\* Threads are scheduled fairly, and a thread blocked on _LOCK gets it if it
\* is released again and again (every holder releases within a few steps and
\* a stream sleeps a full second between two acquisitions).
FairSpec ==
    /\ Spec
    /\ \A t \in Requests : WF_vars(Step(t))
    /\ \A t \in Requests : SF_vars(EvAcquire(t))

\* ---- _uptime_seconds on its own ------------------------------------------
\* The process starts at any of a few instants, time passes tick by tick, and
\* _uptime_seconds is called whenever; no request is served.
request == <<lock, total, lastHit, pc, tmp, snapTotal, snapLast, connClosed,
             hookRuns, snaps, emits, yieldsAfterClose>>

UptimeHorizon == StartTime + MaxUptimeSeconds * TicksPerSecond

UptimeInit ==
    /\ clock \in 0..StartTime
    /\ startedAt = clock
    /\ NoRequests

UptimeTick ==
    /\ clock < UptimeHorizon
    /\ clock' = clock + 1
    /\ UNCHANGED <<startedAt, uptimeRead, request>>

UptimeCall ==
    /\ uptimeRead' = <<NowUtc(clock), UptimeSeconds(clock, startedAt)>>
    /\ UNCHANGED <<clock, startedAt, request>>

UptimeNext == UptimeTick \/ UptimeCall

UptimeSpec == UptimeInit /\ [][UptimeNext]_vars

\* ---- properties ----------------------------------------------------------
HandlerPcs == StatusPcs \cup GenPcs \cup {"respond", "st_respond"}

LockedPcs == {"hook_load", "hook_store", "hook_now", "hook_release",
              "st_read_total", "st_read_last", "st_release",
              "ev_read_total", "ev_read_last", "ev_release"}

\* Requests whose hook has run to its end.
HitsCompleted == Cardinality({u \in Requests : pc[u] \notin {"idle"} \cup HookPcs})

\* Requests whose hook has written both fields.
HitsWritten ==
    Cardinality({u \in Requests :
        pc[u] \notin {"idle", "hook_acquire", "hook_load", "hook_store", "hook_now"}})

NoHookInProgress == \A u \in Requests : pc[u] \notin HookPcs

\* C1: when N hooks have run, in whatever interleaving, and none is still
\* running, the counter is N and a locked read taken then holds N.
C1_NoLostUpdate ==
    NoHookInProgress =>
        /\ total = HitsCompleted
        /\ \A t \in Requests :
             pc[t] \in {"st_read_last", "st_release", "ev_read_last", "ev_release"}
                => snapTotal[t] = HitsCompleted

C1_Witness ==
    /\ NoHookInProgress
    /\ \E t \in Requests : pc[t] = "st_release" /\ snapTotal[t] >= 2

\* C2: the pair a locked read has taken is the pair the shared state holds at
\* the instant the read ends, and that state is the one after exactly k whole
\* hits: no hook is between its two writes.
C2_SnapshotNotTorn ==
    \A t \in Requests :
        pc[t] \in {"st_release", "ev_release"} =>
            /\ snapTotal[t] = total
            /\ snapLast[t] = LastIso(lastHit)
            /\ snapTotal[t] = HitsWritten
            /\ \A u \in Requests : pc[u] # "hook_now"

C2_Witness ==
    \E t, u \in Requests :
        /\ pc[t] \in {"st_release", "ev_release"}
        /\ pc[u] = "hook_acquire"
        /\ snapTotal[t] >= 1
        /\ snapLast[t] # <<>>

\* C3: the last-hit timestamp is set only when at least one request has been
\* counted, in the shared state and in every snapshot.
C3_LastHitImpliesCounted ==
    /\ lastHit # <<>> => total >= 1
    /\ \A t \in Requests : snapLast[t] # <<>> => snapTotal[t] >= 1

C3_Witness ==
    /\ lastHit # <<>>
    /\ \E t \in Requests : pc[t] = "ev_yield" /\ snapLast[t] # <<>>

\* C4: a request is counted exactly once, by one increment of one, and that
\* is done before its handler runs.
C4_CountedOnceBeforeHandler ==
    /\ [](\A t \in Requests :
            /\ hookRuns[t] <= 1
            /\ pc[t] \in {"idle", "hook_acquire", "hook_load", "hook_store"}
                 => hookRuns[t] = 0
            /\ pc[t] \in HandlerPcs \cup {"done", "gen_closed"} => hookRuns[t] = 1)
    /\ [][/\ \A t \in Requests :
               hookRuns'[t] # hookRuns[t] => total' = total + 1
          /\ total' # total => \E t \in Requests : hookRuns'[t] = hookRuns[t] + 1
         ]_vars

C4_Witness ==
    \E t, u \in Requests :
        /\ pc[t] = "respond" /\ hookRuns[t] = 1
        /\ pc[u] = "st_acquire" /\ hookRuns[u] = 1
        /\ total = 2

\* C5: the counter is a natural number and no step lowers it.
C5_TotalNeverDecreases ==
    /\ [](total \in Nat)
    /\ [][total' >= total]_vars

C5_Witness == total >= 2 /\ \E t \in Requests : pc[t] = "ev_sleep"

\* C6: a set last-hit timestamp is not before the start timestamp, and the
\* start timestamp never changes.
C6_LastHitAfterStart ==
    /\ [](lastHit # <<>> => lastHit[1] >= startedAt)
    /\ [][startedAt' = startedAt]_vars

C6_Witness == lastHit # <<>> /\ lastHit[1] > startedAt

\* C7: a stream that is emitting, sleeping or ended does not hold the lock;
\* whoever holds it is inside one of the three `with` blocks.
C7_StreamSleepsUnlocked ==
    /\ \A t \in Requests :
         pc[t] \in {"ev_yield", "ev_sleep", "gen_closed"} => lock # t
    /\ lock # NoOne => pc[lock] \in LockedPcs

C7_Witness ==
    \E t, u \in Requests :
        /\ pc[t] = "ev_sleep"
        /\ lock = u
        /\ pc[u] \in {"hook_load", "st_read_total", "ev_read_total"}

\* C8: once the transport reports the peer gone, the stream hands over at most
\* one more message, none is delivered, and the generator ends for good,
\* outside the lock.
C8_StopsAfterClose ==
    /\ [](\A t \in Requests :
            /\ yieldsAfterClose[t] <= 1
            /\ pc[t] = "gen_closed" => connClosed[t] /\ lock # t)
    /\ [][\A t \in Requests :
            /\ connClosed[t] => emits'[t] <= emits[t]
            /\ pc[t] = "gen_closed" => pc'[t] = "gen_closed"
         ]_vars

C8_Witness ==
    \E t \in Requests : pc[t] = "gen_closed" /\ yieldsAfterClose[t] = 1

C10_SnapshotEmitSleep ==
    \A t \in Requests :
        /\ pc[t] \in {"ev_acquire", "ev_read_total", "ev_read_last"}
             => snaps[t] = 0 /\ emits[t] = 0
        /\ pc[t] \in {"ev_release", "ev_yield"} => snaps[t] = 1 /\ emits[t] = 0
        /\ pc[t] = "ev_sleep" => snaps[t] = 1 /\ emits[t] = 1

C10_Witness ==
    \E t \in Requests : pc[t] = "ev_sleep" /\ snaps[t] = 1 /\ emits[t] = 1 /\ ~connClosed[t]

\* C11: a reading of the uptime is the whole number of seconds that fit in
\* now - started_at (5 when now is five seconds after the start), it is not
\* negative, and a later reading is not smaller than an earlier one.
C11_UptimeTruncates ==
    /\ [](uptimeRead # <<>> =>
            LET d == uptimeRead[1] - startedAt
                u == uptimeRead[2]
            IN  /\ d >= 0
                /\ u \in Nat
                /\ u * TicksPerSecond <= d
                /\ d < (u + 1) * TicksPerSecond
                /\ d = 5 * TicksPerSecond => u = 5)
    /\ [][uptimeRead # <<>> /\ uptimeRead' # <<>>
            => /\ uptimeRead'[1] >= uptimeRead[1]
               /\ uptimeRead'[2] >= uptimeRead[2]]_vars

C11_Witness ==
    /\ uptimeRead # <<>>
    /\ uptimeRead[1] - startedAt = 5 * TicksPerSecond + 1
    /\ uptimeRead[2] = 5

\* C12: the counter is (0, unset) until a hook writes; a hook that finds n
\* leaves n + 1 and then the time of its own clock reading, nothing else
\* touches either field meanwhile, and a read after one hit holds (1, that
\* time).
C12_RecordHitStep ==
    /\ []((\A u \in Requests :
             pc[u] \in {"idle", "hook_acquire", "hook_load", "hook_store"})
            => total = 0 /\ lastHit = <<>>)
    /\ [](\A t \in Requests :
            /\ pc[t] = "hook_store" => tmp[t] = total
            /\ pc[t] \in {"hook_now", "hook_release"} => total = tmp[t] + 1
            /\ (HitsWritten = 1 /\ pc[t] \in {"st_release", "ev_release"})
                 => snapTotal[t] = 1 /\ snapLast[t] = <<IsoFormat(lastHit[1])>>)
    /\ [][\A t \in Requests :
            /\ (pc[t] = "hook_now" /\ pc'[t] = "hook_release")
                 => lastHit' = <<clock>> /\ total' = total
            /\ (pc[t] \in {"hook_load", "hook_store", "hook_now", "hook_release"}
                   /\ pc'[t] = pc[t])
                 => total' = total /\ lastHit' = lastHit
         ]_vars

C12_Witness ==
    \E t, u \in Requests :
        /\ pc[u] = "idle"
        /\ pc[t] = "st_release"
        /\ snapTotal[t] = 1
        /\ snapLast[t] = <<IsoFormat(startedAt + 1)>>

\* C13: the payload of every /api/status response and of every /events
\* message, from the end of its locked read on, carries a count of at least
\* one and a last-hit string, never (0, null).
C13_NeverZeroNull ==
    \A t \in Requests :
        pc[t] \in {"st_release", "st_respond", "ev_release", "ev_yield"}
            => snapTotal[t] >= 1 /\ snapLast[t] # <<>>

C13_Witness ==
    \E t, u \in Requests :
        /\ pc[t] = "st_respond" /\ snapTotal[t] = 1 /\ snapLast[t] # <<>>
        /\ pc[u] = "ev_yield" /\ snapTotal[u] = 2 /\ ~connClosed[u]

\* C14: a stream is counted once for as long as it lives, and no step of a
\* stream's loop or of api_status after the hook changes the counter or the
\* last-hit timestamp.
C14_ReadsLeaveCounter ==
    /\ [](\A t \in Requests :
            pc[t] \in GenPcs \cup {"gen_closed"} => hookRuns[t] = 1)
    /\ [][\A t \in Requests :
            (pc[t] \in GenPcs \cup StatusPcs \cup {"st_respond"} /\ pc'[t] # pc[t])
               => total' = total /\ lastHit' = lastHit
         ]_vars

C14_Witness ==
    \E t, u \in Requests :
        /\ pc[u] = "idle"
        /\ pc[t] = "ev_sleep" /\ emits[t] = 1
        /\ hookRuns[t] = 1
        /\ total = 1

====
